---- MODULE Spec2Model ----
(***************************************************************************)
(* Session manager (AuthProvider) and presence/sync channel manager        *)
(* (SocketProvider) of the Echoes mobile client, with the persisted        *)
(* storage they share.  Every await of the asynchronous operations is a    *)
(* separate step, so that operations interleave the way the event loop     *)
(* lets them.                                                              *)
(***************************************************************************)
EXTENDS Integers, Sequences, FiniteSets, TLC

(* ------------------------------ bounds --------------------------------- *)

\* number of socket objects that can exist (not yet closed) at one time
MaxSockets == 2

\* number of login / logout / refreshUser invocations in one behaviour
MaxCalls == 2

\* number of packets a socket that is not connected holds in its send buffer
MaxBuffered == 1

(* --------------------------- value domains ----------------------------- *)

\* the null of a string-valued field (spotifyId, partnerId)
Null == "null"

\* a field that is absent from an event payload
Undefined == "undefined"

\* the null of an object-valued field (user, partnerStatus); Some(x) is x
None == << >>

Some(x) == << x >>

\* identities the authorization flow and the storage can hold
Identities == {"u1", "u2"}

\* partnerId values a profile fetch can return
PartnerIds == {Null, "p1"}

\* the callbacks the view layer passes to onSyncCommand
SyncCallbacks == {"a", "b"}

\* the events of startListening, updateListening, stopListening, joinPartnerSession
OutboundEvents == {"listening:start", "listening:update", "listening:stop", "session:join"}

\* track names carried by a partner:status payload (or no trackName field)
TrackNames == {"X", Undefined}

\* StoredUser; displayName, email and images are carried along unchanged
\* and never inspected, so id and partnerId stand for the record
StoredUser(id, partnerId) == [id |-> id, partnerId |-> partnerId]

StoredUsers == {StoredUser(i, p) : i \in Identities, p \in PartnerIds}

\* PartnerStatus payloads of partner:status
PartnerStatus == [isListening : BOOLEAN, trackName : TrackNames]

\* io() option reconnectionAttempts
reconnectionAttempts == 5

VARIABLES
  state,      \* AuthProvider: the AuthState held by useState
  stored,     \* AsyncStorage: the records under KEYS.SPOTIFY_ID / KEYS.USER_DATA
  initP,      \* initializeAuth: position and locals
  loginP,     \* login / handleAuthSuccess: position and locals
  logoutP,    \* logout: position and locals
  refreshP,   \* refreshUser: position and locals
  callbackP,  \* AuthCallbackScreen.handleCallback: position and locals
  channel,    \* SocketProvider: socketRef, the socket objects, the three useStates
  mounted,    \* the provider tree is mounted
  calls,      \* invocations made so far (bounded by MaxCalls)
  view,       \* the view layer's onSyncCommand registrations, per callback
  last        \* the step taken last

vars == << state, stored, initP, loginP, logoutP, refreshP, callbackP, channel, mounted, calls, view, last >>

(* ------------------------- AuthState literals --------------------------- *)

\* useState initial value
InitialAuthState ==
  [isLoading |-> TRUE, isAuthenticated |-> FALSE, user |-> None,
   spotifyId |-> Null, partnerId |-> Null]

\* the object literal of every unauthenticated setState
UnauthenticatedState ==
  [isLoading |-> FALSE, isAuthenticated |-> FALSE, user |-> None,
   spotifyId |-> Null, partnerId |-> Null]

\* variant of AuthenticatedState that leaves partnerId out
AuthenticatedStateNoPartner(user, spotifyId, partnerId) ==
  [isLoading |-> FALSE, isAuthenticated |-> TRUE, user |-> Some(user),
   spotifyId |-> spotifyId, partnerId |-> Null]

\* the object literal of the authenticated setState
AuthenticatedState(user, spotifyId, partnerId) ==
  [isLoading |-> FALSE, isAuthenticated |-> TRUE, user |-> Some(user),
   spotifyId |-> spotifyId, partnerId |-> partnerId]

\* setState((prev) => ({ ...prev, isLoading: v }))
WithLoading(prev, v) == [prev EXCEPT !.isLoading = v]

\* variant of RefreshMerge that also marks the session authenticated
RefreshMergeAuth(prev, user, partnerId) ==
  [prev EXCEPT !.isAuthenticated = TRUE, !.user = Some(user), !.partnerId = partnerId]

\* variant of RefreshMerge that keeps the previous partnerId
RefreshMergeKeepPartner(prev, user, partnerId) ==
  [prev EXCEPT !.user = Some(user)]

\* setState((prev) => ({ ...prev, user, partnerId: response.partnerId }))
RefreshMerge(prev, user, partnerId) ==
  [prev EXCEPT !.user = Some(user), !.partnerId = partnerId]

(* ------------------------------ storage --------------------------------- *)

EmptyStorage == [spotifyId |-> Null, user |-> None]

\* clearAuthData: Promise.all of the two removals; each removal succeeds or
\* rejects on its own, and the call rejects when either does
ClearOutcomes(st) ==
  { [stored |-> [spotifyId |-> IF rid THEN Null ELSE st.spotifyId,
                 user      |-> IF ru THEN None ELSE st.user],
     ok     |-> rid /\ ru] : rid \in BOOLEAN, ru \in BOOLEAN }

(* --------------------------- socket objects ----------------------------- *)

SocketIds == 1 .. MaxSockets

\* a slot that holds no socket (never created, or closed by disconnect())
NoSocket ==
  [status |-> "closed", query |-> Null, attempts |-> 0, sync |-> {}, sendBuffer |-> 0]

\* io(SOCKET_URL, { query: { spotifyId }, ... }): a socket that starts
\* connecting, with no session:sync listener and nothing buffered
NewSocket(spotifyId) ==
  [status |-> "connecting", query |-> spotifyId, attempts |-> 0, sync |-> {},
   sendBuffer |-> 0]

InitialChannel ==
  [socketRef |-> 0, sockets |-> [i \in SocketIds |-> NoSocket],
   isConnected |-> FALSE, isPartnerOnline |-> FALSE, partnerStatus |-> None]

FreeSlots(ch) == {i \in SocketIds : ch.sockets[i].status = "closed"}

LiveSockets(ch) == {i \in SocketIds : ch.sockets[i].status # "closed"}

Min(S) == CHOOSE m \in S : \A n \in S : m <= n

\* variant of ResetPresence without setIsPartnerOnline(false)
ResetPresenceKeepOnline(ch) ==
  [ch EXCEPT !.isConnected = FALSE, !.partnerStatus = None]

\* variant of ResetPresence without setPartnerStatus(null)
ResetPresenceKeepStatus(ch) ==
  [ch EXCEPT !.isConnected = FALSE, !.isPartnerOnline = FALSE]

\* the setters of the 'disconnect' handler
ResetPresence(ch) ==
  [ch EXCEPT !.isConnected = FALSE, !.isPartnerOnline = FALSE, !.partnerStatus = None]

\* connectSocket
ConnectSocket(ch, spotifyId) ==
  IF ch.socketRef # 0 /\ ch.sockets[ch.socketRef].status = "connected"
    THEN ch
    ELSE IF FreeSlots(ch) = {} THEN ch
    ELSE [ch EXCEPT !.sockets[Min(FreeSlots(ch))] = NewSocket(spotifyId),
                    !.socketRef = Min(FreeSlots(ch))]

\* variant of DisconnectSocket without setPartnerStatus(null)
DisconnectSocketKeepStatus(ch) ==
  IF ch.socketRef # 0
    THEN [ch EXCEPT !.sockets[ch.socketRef] = NoSocket, !.socketRef = 0,
                    !.isConnected = FALSE, !.isPartnerOnline = FALSE]
    ELSE ch

\* disconnectSocket; socket.disconnect() on a connected socket fires its
\* 'disconnect' handler, whose setters are the ones that follow here
DisconnectSocket(ch) ==
  IF ch.socketRef # 0
    THEN ResetPresence([ch EXCEPT !.sockets[ch.socketRef] = NoSocket, !.socketRef = 0])
    ELSE ch

\* variant of AuthEffect whose effect returns no cleanup
AuthEffectNoCleanup(ch, old, new) ==
  IF old.isAuthenticated = new.isAuthenticated /\ old.spotifyId = new.spotifyId
    THEN ch
    ELSE IF new.isAuthenticated /\ new.spotifyId # Null
           THEN ConnectSocket(ch, new.spotifyId)
           ELSE DisconnectSocket(ch)

\* variant of AuthEffect that connects with the spotifyId of the previous render
AuthEffectStaleIdentity(ch, old, new) ==
  IF old.isAuthenticated = new.isAuthenticated /\ old.spotifyId = new.spotifyId
    THEN ch
    ELSE IF new.isAuthenticated /\ new.spotifyId # Null
           THEN ConnectSocket(DisconnectSocket(ch),
                              IF old.spotifyId # Null THEN old.spotifyId ELSE new.spotifyId)
           ELSE DisconnectSocket(DisconnectSocket(ch))

\* the useEffect on [isAuthenticated, spotifyId]: when a dependency changed,
\* the previous effect's cleanup runs, then the effect body
AuthEffect(ch, old, new) ==
  IF old.isAuthenticated = new.isAuthenticated /\ old.spotifyId = new.spotifyId
    THEN ch
    ELSE IF new.isAuthenticated /\ new.spotifyId # Null
           THEN ConnectSocket(DisconnectSocket(ch), new.spotifyId)
           ELSE DisconnectSocket(DisconnectSocket(ch))

\* a setState of the AuthProvider followed by the re-render it causes; an
\* unmounted provider ignores it
Commit(new) ==
  /\ state' = IF mounted THEN new ELSE state
  /\ channel' = IF mounted THEN AuthEffect(channel, state, new) ELSE channel

Idle == [pc |-> "idle"]

\* the label of the step taken
Log(op) == [op |-> op]

Init ==
  /\ state = InitialAuthState
  /\ stored \in [spotifyId : Identities \cup {Null},
                 user : {None} \cup {Some(u) : u \in StoredUsers}]
  /\ initP = [pc |-> "getStoredSpotifyId"]
  /\ loginP = Idle
  /\ logoutP = Idle
  /\ refreshP = Idle
  /\ callbackP = [pc |-> "start"]
  /\ channel = InitialChannel
  /\ mounted = TRUE
  /\ calls = 0
  /\ view = [cb \in SyncCallbacks |-> "none"]
  /\ last = [op |-> "mount"]

(* --------------------------- initializeAuth ----------------------------- *)

InitDone == [pc |-> "done"]

\* const spotifyId = await getStoredSpotifyId()   (null when the read throws)
InitGetStoredSpotifyId ==
  /\ initP.pc = "getStoredSpotifyId"
  /\ \E v \in {stored.spotifyId, Null} :
       initP' = [pc |-> "getStoredUser", spotifyId |-> v]
  /\ last' = Log("initializeAuth:getStoredSpotifyId")
  /\ UNCHANGED << state, stored, loginP, logoutP, refreshP, channel, mounted, calls, view, callbackP >>

\* const storedUser = await getStoredUser(); if (spotifyId && storedUser) ... else
InitGetStoredUser ==
  /\ initP.pc = "getStoredUser"
  /\ \E v \in {stored.user, None} :
       IF initP.spotifyId # Null /\ v # None
         THEN /\ initP' = [pc |-> "getMe", spotifyId |-> initP.spotifyId]
              /\ last' = Log("initializeAuth:getStoredUser")
              /\ UNCHANGED << state, channel >>
         ELSE /\ initP' = InitDone
              /\ last' = Log("initializeAuth:settled:notStored")
              /\ Commit(UnauthenticatedState)
  /\ UNCHANGED << stored, loginP, logoutP, refreshP, mounted, calls, view, callbackP >>

\* const response = await api.getMe(spotifyId)
InitGetMe ==
  /\ initP.pc = "getMe"
  /\ \/ initP' = [pc |-> "setStoredUser", spotifyId |-> initP.spotifyId]
     \/ initP' = [pc |-> "clearAuthData", fetch |-> "rejected"]
  /\ last' = Log("initializeAuth:getMe")
  /\ UNCHANGED << state, stored, loginP, logoutP, refreshP, channel, mounted, calls, view, callbackP >>

\* await setStoredUser(user); setState({... isAuthenticated: true ...});
\* response.partnerId is first used here and is drawn here
InitSetStoredUser ==
  /\ initP.pc = "setStoredUser"
  /\ \/ /\ \E p \in PartnerIds :
             /\ stored' = [stored EXCEPT !.user = Some(StoredUser(initP.spotifyId, p))]
             /\ Commit(AuthenticatedState(StoredUser(initP.spotifyId, p),
                                          initP.spotifyId, p))
             /\ last' = [op |-> "initializeAuth:settled:fetched", partnerId |-> p]
        /\ initP' = InitDone
     \/ /\ initP' = [pc |-> "clearAuthData", fetch |-> "ok"]
        /\ last' = Log("initializeAuth:setStoredUser:rejected")
        /\ UNCHANGED << state, stored, channel >>
  /\ UNCHANGED << loginP, logoutP, refreshP, mounted, calls, view, callbackP >>

\* catch { await clearAuthData(); setState(unauthenticated) }, and the outer
\* catch with the same setState when clearAuthData rejects
InitClearAuthData ==
  /\ initP.pc = "clearAuthData"
  /\ \E o \in ClearOutcomes(stored) : stored' = o.stored
  /\ Commit(UnauthenticatedState)
  /\ initP' = InitDone
  /\ last' = Log(IF initP.fetch = "ok" THEN "initializeAuth:settled:fetched:cleared"
                                       ELSE "initializeAuth:settled:rejected")
  /\ UNCHANGED << loginP, logoutP, refreshP, mounted, calls, view, callbackP >>

initializeAuth ==
  \/ InitGetStoredSpotifyId
  \/ InitGetStoredUser
  \/ InitGetMe
  \/ InitSetStoredUser
  \/ InitClearAuthData

(* -------------------------------- login --------------------------------- *)

\* setState(isLoading: true); await WebBrowser.openAuthSessionAsync(...)
\* a clean unauthenticated state: no session in memory, nothing persisted
CleanStart(st, sto) ==
  /\ ~st.isAuthenticated /\ st.spotifyId = Null /\ st.user = None
  /\ sto = EmptyStorage

LoginCall ==
  /\ mounted /\ loginP.pc = "idle" /\ calls < MaxCalls
  /\ calls' = calls + 1
  /\ Commit(WithLoading(state, TRUE))
  /\ loginP' = [pc |-> "openAuthSession", spotifyId |-> Null,
                clean |-> CleanStart(state, stored)]
  /\ last' = Log("login:call")
  /\ UNCHANGED << stored, initP, logoutP, refreshP, mounted, view, callbackP >>

\* what a settled login() leaves to its caller: every throw of the try block
\* is caught and logged and nothing is rethrown, so the promise resolves;
\* spotifyId is the identity of the callback url (Null when there was none),
\* clean tells whether the call started from a clean unauthenticated state
LoginSettled(label, p) ==
  [op |-> label, promise |-> "resolved", clean |-> p.clean, spotifyId |-> p.spotifyId]

\* finally { setState((prev) => ({ ...prev, isLoading: false })) }
LoginFinally(label) ==
  /\ Commit(WithLoading(state, FALSE))
  /\ loginP' = Idle
  /\ last' = LoginSettled(label, loginP)

\* the result of the browser session: a callback url carrying spotifyId, a
\* callback url without it, a dismissed session, or a throw
LoginAuthSession ==
  /\ loginP.pc = "openAuthSession"
  /\ \/ /\ \E id \in Identities :
             loginP' = [loginP EXCEPT !.pc = "getMe", !.spotifyId = id]
        /\ last' = Log("login:openAuthSession")
        /\ UNCHANGED << state, channel >>
     \/ \E l \in {"login:noIdentity", "login:dismissed", "login:sessionThrew"} :
          LoginFinally(l)
  /\ UNCHANGED << stored, initP, logoutP, refreshP, mounted, calls, view, callbackP >>

\* handleAuthSuccess: const response = await api.getMe(spotifyId)
LoginGetMe ==
  /\ loginP.pc = "getMe"
  /\ \/ /\ loginP' = [loginP EXCEPT !.pc = "setStoredSpotifyId"]
        /\ last' = Log("login:getMe")
        /\ UNCHANGED << state, channel >>
     \/ LoginFinally("login:getMe:rejected")
  /\ UNCHANGED << stored, initP, logoutP, refreshP, mounted, calls, view, callbackP >>

\* handleAuthSuccess: await setStoredSpotifyId(spotifyId)
LoginSetStoredSpotifyId ==
  /\ loginP.pc = "setStoredSpotifyId"
  /\ \/ /\ stored' = [stored EXCEPT !.spotifyId = loginP.spotifyId]
        /\ loginP' = [loginP EXCEPT !.pc = "setStoredUser"]
        /\ last' = Log("login:setStoredSpotifyId")
        /\ UNCHANGED << state, channel >>
     \/ /\ LoginFinally("login:setStoredSpotifyId:rejected")
        /\ UNCHANGED stored
  /\ UNCHANGED << initP, logoutP, refreshP, mounted, calls, view, callbackP >>

\* handleAuthSuccess: await setStoredUser(user); setState(authenticated);
\* then login's finally, which leaves isLoading false; response.partnerId is
\* first used here and is drawn here
LoginSetStoredUser ==
  /\ loginP.pc = "setStoredUser"
  /\ \/ /\ \E p \in PartnerIds :
             /\ stored' = [stored EXCEPT !.user = Some(StoredUser(loginP.spotifyId, p))]
             /\ Commit(WithLoading(
                    AuthenticatedState(StoredUser(loginP.spotifyId, p),
                                       loginP.spotifyId, p), FALSE))
             /\ last' = [op |-> IF state.isAuthenticated
                                     /\ state.spotifyId # loginP.spotifyId
                                   THEN "login:authenticated:identityChanged"
                                   ELSE "login:authenticated",
                          promise |-> "resolved", clean |-> loginP.clean,
                          spotifyId |-> loginP.spotifyId, partnerId |-> p]
        /\ loginP' = Idle
     \/ /\ LoginFinally("login:setStoredUser:rejected")
        /\ UNCHANGED stored
  /\ UNCHANGED << initP, logoutP, refreshP, mounted, calls, view, callbackP >>

login ==
  \/ LoginCall
  \/ LoginAuthSession
  \/ LoginGetMe
  \/ LoginSetStoredSpotifyId
  \/ LoginSetStoredUser

(* -------------------------------- logout -------------------------------- *)

\* setState(isLoading: true); if (state.spotifyId) await api.logout(state.spotifyId)
LogoutCall ==
  /\ mounted /\ logoutP.pc = "idle" /\ calls < MaxCalls
  /\ calls' = calls + 1
  /\ Commit(WithLoading(state, TRUE))
  /\ logoutP' = IF state.spotifyId # Null
                  THEN [pc |-> "apiLogout"]
                  ELSE [pc |-> "clearAuthData", api |-> "skipped"]
  /\ last' = Log("logout:call")
  /\ UNCHANGED << stored, initP, loginP, refreshP, mounted, view, callbackP >>

\* await api.logout(state.spotifyId): returns, or throws into the catch
LogoutApi ==
  /\ logoutP.pc = "apiLogout"
  /\ \/ logoutP' = [pc |-> "clearAuthData", api |-> "ok"]
     \/ logoutP' = [pc |-> "clearAuthDataCatch", api |-> "threw"]
  /\ last' = Log("logout:apiLogout")
  /\ UNCHANGED << state, stored, initP, loginP, refreshP, channel, mounted, calls, view, callbackP >>

\* how logout() settled, by what its api.logout call did
LogoutLabel(outcome, api) ==
  IF outcome = "settled"
    THEN (IF api = "ok" THEN "logout:settled:apiOk"
          ELSE IF api = "threw" THEN "logout:settled:apiThrew"
          ELSE "logout:settled:apiSkipped")
    ELSE (IF api = "ok" THEN "logout:rejected:apiOk"
          ELSE IF api = "threw" THEN "logout:rejected:apiThrew"
          ELSE "logout:rejected:apiSkipped")

\* try: await clearAuthData(); setState(unauthenticated)
LogoutClearAuthData ==
  /\ logoutP.pc = "clearAuthData"
  /\ \E o \in ClearOutcomes(stored) :
       /\ stored' = o.stored
       /\ IF o.ok
            THEN /\ Commit(UnauthenticatedState)
                 /\ logoutP' = Idle
                 /\ last' = Log(LogoutLabel("settled", logoutP.api))
            ELSE /\ logoutP' = [logoutP EXCEPT !.pc = "clearAuthDataCatch"]
                 /\ last' = Log("logout:clearAuthData:rejected")
                 /\ UNCHANGED << state, channel >>
  /\ UNCHANGED << initP, loginP, refreshP, mounted, calls, view, callbackP >>

\* catch: await clearAuthData(); setState(unauthenticated); a rejection here
\* rejects logout() itself
LogoutClearAuthDataCatch ==
  /\ logoutP.pc = "clearAuthDataCatch"
  /\ \E o \in ClearOutcomes(stored) :
       /\ stored' = o.stored
       /\ logoutP' = Idle
       /\ IF o.ok
            THEN /\ Commit(UnauthenticatedState)
                 /\ last' = Log(LogoutLabel("settled", logoutP.api))
            ELSE /\ last' = Log(LogoutLabel("rejected", logoutP.api))
                 /\ UNCHANGED << state, channel >>
  /\ UNCHANGED << initP, loginP, refreshP, mounted, calls, view, callbackP >>

logout ==
  \/ LogoutCall
  \/ LogoutApi
  \/ LogoutClearAuthData
  \/ LogoutClearAuthDataCatch

(* ------------------------------ refreshUser ------------------------------ *)

\* variant of RefreshFailed that logs the session out
RefreshFailedLogout(prev) == UnauthenticatedState

\* catch (error) { console.error('Error refreshing user:', error) }: no
\* setState, the session is left as it was
RefreshFailed(prev) == prev

\* variant of RefreshStart without the early return
RefreshStartNoGuard(st) == [pc |-> "getMe", spotifyId |-> st.spotifyId]

\* if (!state.spotifyId) return; otherwise the call goes on to
\* await api.getMe(state.spotifyId)
RefreshStart(st) ==
  IF st.spotifyId = Null THEN Idle ELSE [pc |-> "getMe", spotifyId |-> st.spotifyId]

RefreshCall ==
  /\ mounted /\ refreshP.pc = "idle" /\ calls < MaxCalls
  /\ calls' = calls + 1
  /\ refreshP' = RefreshStart(state)
  /\ last' = Log(IF state.spotifyId = Null THEN "refreshUser:noIdentity"
                                            ELSE "refreshUser:call")
  /\ UNCHANGED << state, stored, initP, loginP, logoutP, channel, mounted, view, callbackP >>

\* const response = await api.getMe(state.spotifyId); a throw is logged
RefreshGetMe ==
  /\ refreshP.pc = "getMe"
  /\ \/ /\ refreshP' = [pc |-> "setStoredUser", spotifyId |-> refreshP.spotifyId]
        /\ last' = Log("refreshUser:getMe")
        /\ UNCHANGED << state, channel >>
     \/ /\ refreshP' = Idle
        /\ Commit(RefreshFailed(state))
        /\ last' = Log("refreshUser:getMe:rejected")
  /\ UNCHANGED << stored, initP, loginP, logoutP, mounted, calls, view, callbackP >>

\* await setStoredUser(user); setState((prev) => ({ ...prev, user, partnerId }));
\* response.partnerId is first used here and is drawn here
RefreshSetStoredUser ==
  /\ refreshP.pc = "setStoredUser"
  /\ \/ /\ \E p \in PartnerIds :
             /\ stored' = [stored EXCEPT !.user = Some(StoredUser(refreshP.spotifyId, p))]
             /\ Commit(RefreshMerge(state, StoredUser(refreshP.spotifyId, p), p))
             /\ last' = [op |-> IF state.spotifyId = refreshP.spotifyId
                                   THEN "refreshUser:settled"
                                   ELSE "refreshUser:settled:late",
                          partnerId |-> p, was |-> state.partnerId]
     \/ /\ Commit(RefreshFailed(state))
        /\ last' = Log("refreshUser:setStoredUser:rejected")
        /\ UNCHANGED stored
  /\ refreshP' = Idle
  /\ UNCHANGED << initP, loginP, logoutP, mounted, calls, view, callbackP >>

refreshUser ==
  \/ RefreshCall
  \/ RefreshGetMe
  \/ RefreshSetStoredUser

(* ------------------------------- unmount -------------------------------- *)

\* the provider tree is unmounted: the effect's cleanup runs
Unmount ==
  /\ mounted
  /\ mounted' = FALSE
  /\ channel' = DisconnectSocket(channel)
  /\ last' = Log(IF channel.isConnected /\ channel.partnerStatus # None
                    THEN "unmount:wasConnected" ELSE "unmount")
  /\ UNCHANGED << state, stored, initP, loginP, logoutP, refreshP, calls, view, callbackP >>

(* ---------------------- AuthCallbackScreen.handleCallback ----------------- *)

\* useEffect(() => { handleCallback() }, []): the handleCallback of the
\* screen's first render runs, with the refreshUser of that render, whose
\* closure holds the state.spotifyId of that render; without
\* params.spotifyId it sets the error and returns
CallbackStart ==
  /\ mounted /\ callbackP.pc = "start"
  /\ \E id \in Identities \cup {Null} :
       IF id = Null
         THEN /\ callbackP' = [pc |-> "error"]
              /\ last' = Log("callback:noIdentity")
         ELSE /\ callbackP' = [pc |-> "getMe", spotifyId |-> id,
                                closure |-> state.spotifyId]
              /\ last' = Log("callback:start")
  /\ UNCHANGED << state, stored, initP, loginP, logoutP, refreshP, channel, mounted, calls, view >>

\* const response = await api.getMe(spotifyId); a throw ends in setError
CallbackGetMe ==
  /\ callbackP.pc = "getMe"
  /\ \/ /\ callbackP' = [callbackP EXCEPT !.pc = "setStoredSpotifyId"]
        /\ last' = Log("callback:getMe")
     \/ /\ callbackP' = [pc |-> "error"]
        /\ last' = Log("callback:getMe:rejected")
  /\ UNCHANGED << state, stored, initP, loginP, logoutP, refreshP, channel, mounted, calls, view >>

\* await setStoredSpotifyId(spotifyId)
CallbackSetStoredSpotifyId ==
  /\ callbackP.pc = "setStoredSpotifyId"
  /\ \/ /\ stored' = [stored EXCEPT !.spotifyId = callbackP.spotifyId]
        /\ callbackP' = [callbackP EXCEPT !.pc = "setStoredUser"]
        /\ last' = Log("callback:setStoredSpotifyId")
     \/ /\ callbackP' = [pc |-> "error"]
        /\ last' = Log("callback:setStoredSpotifyId:rejected")
        /\ UNCHANGED stored
  /\ UNCHANGED << state, initP, loginP, logoutP, refreshP, channel, mounted, calls, view >>

\* await setStoredUser(user)
CallbackSetStoredUser ==
  /\ callbackP.pc = "setStoredUser"
  /\ \/ /\ \E p \in PartnerIds :
             stored' = [stored EXCEPT !.user = Some(StoredUser(callbackP.spotifyId, p))]
        /\ callbackP' = [callbackP EXCEPT !.pc = "refreshUser"]
        /\ last' = Log("callback:setStoredUser")
     \/ /\ callbackP' = [pc |-> "error"]
        /\ last' = Log("callback:setStoredUser:rejected")
        /\ UNCHANGED stored
  /\ UNCHANGED << state, initP, loginP, logoutP, refreshP, channel, mounted, calls, view >>

\* await refreshUser(): the call of the captured refreshUser, which tests the
\* state.spotifyId of its own closure
CallbackRefreshUser ==
  /\ callbackP.pc = "refreshUser" /\ refreshP.pc = "idle"
  /\ refreshP' = RefreshStart([spotifyId |-> callbackP.closure])
  /\ callbackP' = [callbackP EXCEPT !.pc = "awaitRefresh"]
  /\ last' = Log("callback:refreshUser")
  /\ UNCHANGED << state, stored, initP, loginP, logoutP, channel, mounted, calls, view >>

\* router.replace('/(tabs)') once refreshUser() has resolved
CallbackNavigate ==
  /\ callbackP.pc = "awaitRefresh" /\ refreshP.pc = "idle"
  /\ callbackP' = [pc |-> "done"]
  /\ last' = [op |-> "callback:navigate", spotifyId |-> callbackP.spotifyId]
  /\ UNCHANGED << state, stored, initP, loginP, logoutP, refreshP, channel, mounted, calls, view >>

handleCallback ==
  \/ CallbackStart
  \/ CallbackGetMe
  \/ CallbackSetStoredSpotifyId
  \/ CallbackSetStoredUser
  \/ CallbackRefreshUser
  \/ CallbackNavigate

(* --------------------------- transport events ---------------------------- *)

AuthUnchanged == UNCHANGED << state, stored, initP, loginP, logoutP, refreshP, mounted, calls, view, callbackP >>

\* variant of SocketConnect in which a socket that gave up connects later
SocketConnectAfterFailure(i) ==
  /\ channel.sockets[i].status \in {"connecting", "failed"}
  /\ channel' = [channel EXCEPT !.sockets[i].status = "connected",
                                !.sockets[i].attempts = 0,
                                !.sockets[i].sendBuffer = 0,
                                !.isConnected = TRUE]
  /\ last' = [op |-> "connect", flushed |-> channel.sockets[i].sendBuffer]
  /\ AuthUnchanged

\* socket.on('connect'): the transport opened (first connection or reconnection)
SocketConnect(i) ==
  /\ channel.sockets[i].status = "connecting"
  /\ channel' = [channel EXCEPT !.sockets[i].status = "connected",
                                !.sockets[i].attempts = 0,
                                !.sockets[i].sendBuffer = 0,
                                !.isConnected = TRUE]
  /\ last' = [op |-> "connect", flushed |-> channel.sockets[i].sendBuffer]
  /\ AuthUnchanged

\* a connection attempt failed: another one is scheduled until
\* reconnectionAttempts of them have been made
SocketConnectError(i) ==
  /\ channel.sockets[i].status = "connecting"
  /\ channel' = IF channel.sockets[i].attempts < reconnectionAttempts
                  THEN [channel EXCEPT !.sockets[i].attempts = @ + 1]
                  ELSE [channel EXCEPT !.sockets[i].status = "failed"]
  /\ last' = Log("connect_error")
  /\ AuthUnchanged

\* variant of OnDisconnect without setPartnerStatus(null)
OnDisconnectKeepStatus(ch) ==
  [ch EXCEPT !.isConnected = FALSE, !.isPartnerOnline = FALSE]

\* socket.on('disconnect') handler
OnDisconnect(ch) == ResetPresence(ch)

\* the transport dropped an open connection; the socket starts reconnecting,
\* or stays down when the server closed it
SocketDisconnect(i) ==
  /\ channel.sockets[i].status = "connected"
  /\ \E s \in {"connecting", "failed"} :
       channel' = OnDisconnect([channel EXCEPT !.sockets[i].status = s])
  /\ last' = Log(IF channel.isPartnerOnline /\ channel.partnerStatus # None
                    THEN "disconnect:hadPresence" ELSE "disconnect")
  /\ AuthUnchanged

\* socket.on('partner:online') handler
OnPartnerOnline(ch) == [ch EXCEPT !.isPartnerOnline = TRUE]

PartnerOnline(i) ==
  /\ channel.sockets[i].status = "connected"
  /\ channel' = OnPartnerOnline(channel)
  /\ last' = Log("partner:online")
  /\ AuthUnchanged

\* variant of OnPartnerOffline without setPartnerStatus(null)
OnPartnerOfflineKeepStatus(ch) == [ch EXCEPT !.isPartnerOnline = FALSE]

\* socket.on('partner:offline') handler
OnPartnerOffline(ch) == [ch EXCEPT !.isPartnerOnline = FALSE, !.partnerStatus = None]

PartnerOffline(i) ==
  /\ channel.sockets[i].status = "connected"
  /\ channel' = OnPartnerOffline(channel)
  /\ last' = Log(IF last.op = "partner:status:listening"
                    THEN "partner:offline:afterListening" ELSE "partner:offline")
  /\ AuthUnchanged

\* variant of OnPartnerStatus that leaves isPartnerOnline to partner:online
OnPartnerStatusNoOnline(ch, data) ==
  [ch EXCEPT !.partnerStatus = Some(data)]

\* variant of OnPartnerStatus that merges the payload into the previous status:
\* a field the payload lacks keeps its previous value
OnPartnerStatusMerge(ch, data) ==
  [ch EXCEPT !.partnerStatus =
               IF ch.partnerStatus # None /\ data.trackName = Undefined
                 THEN Some([data EXCEPT !.trackName = ch.partnerStatus[1].trackName])
                 ELSE Some(data),
             !.isPartnerOnline = IF data.isListening THEN TRUE ELSE @]

\* socket.on('partner:status') handler
OnPartnerStatus(ch, data) ==
  [ch EXCEPT !.partnerStatus = Some(data),
             !.isPartnerOnline = IF data.isListening THEN TRUE ELSE @]

\* the step records the payload delivered and the presence state it met
PartnerStatusEvent(i) ==
  /\ channel.sockets[i].status = "connected"
  /\ \E data \in PartnerStatus :
       /\ channel' = OnPartnerStatus(channel, data)
       /\ last' = [op |-> IF data.isListening THEN "partner:status:listening"
                                              ELSE "partner:status",
                   data |-> data,
                   before |-> channel.partnerStatus,
                   wasOnline |-> channel.isPartnerOnline]
  /\ AuthUnchanged

\* the server sent session:sync: the socket invokes the listeners that
\* on('session:sync', handler) attached to it
SessionSync(i) ==
  /\ channel.sockets[i].status = "connected"
  /\ last' = [op |-> "session:sync", socket |-> i, invoked |-> channel.sockets[i].sync]
  /\ UNCHANGED channel
  /\ AuthUnchanged

\* the events of the connection itself and of the sync session
lifecycle ==
  \E i \in SocketIds :
    \/ SocketConnect(i)
    \/ SocketConnectError(i)
    \/ SocketDisconnect(i)
    \/ SessionSync(i)

\* the partner presence events
presence ==
  \E i \in SocketIds :
    \/ PartnerOnline(i)
    \/ PartnerOffline(i)
    \/ PartnerStatusEvent(i)

transport ==
  \/ lifecycle
  \/ presence

(* ---------------------------- specification ------------------------------ *)

Next ==
  \/ initializeAuth
  \/ login
  \/ logout
  \/ refreshUser
  \/ Unmount
  \/ transport

Spec == Init /\ [][Next]_vars

(* --------- the channel manager driven directly: connect, disconnect ------- *)

\* connect(identity): connectSocket called by the owner of the manager
ConnectCall ==
  /\ FreeSlots(channel) # {}
  /\ \E id \in Identities : channel' = ConnectSocket(channel, id)
  /\ last' = Log(IF channel.socketRef = 0 THEN "connectSocket"
                 ELSE IF channel.sockets[channel.socketRef].status = "connected"
                   THEN "connectSocket:again:connected"
                   ELSE "connectSocket:again:notConnected")
  /\ AuthUnchanged

\* disconnect(): disconnectSocket called by the owner of the manager
DisconnectCall ==
  /\ channel' = DisconnectSocket(channel)
  /\ last' = Log("disconnectSocket")
  /\ AuthUnchanged

NextChannel ==
  \/ ConnectCall
  \/ DisconnectCall
  \/ transport

SpecChannel == Init /\ [][NextChannel]_vars

(* ------------- the channel manager together with its view layer ----------- *)

\* variant of OffSync that removes every session:sync listener
OffSyncAll(ch, cb) ==
  IF ch.socketRef # 0
    THEN [ch EXCEPT !.sockets[ch.socketRef].sync = {}]
    ELSE ch

\* the detach function of onSyncCommand: socketRef.current?.off('session:sync', handler)
OffSync(ch, cb) ==
  IF ch.socketRef # 0
    THEN [ch EXCEPT !.sockets[ch.socketRef].sync = @ \ {cb}]
    ELSE ch

\* onSyncCommand: socketRef.current?.on('session:sync', handler)
OnSync(ch, cb) ==
  IF ch.socketRef # 0
    THEN [ch EXCEPT !.sockets[ch.socketRef].sync = @ \cup {cb}]
    ELSE ch

\* socketRef.current?.emit(event, data): written to the transport by a
\* connected socket, kept in the socket's send buffer until 'connect' by one
\* that is not connected, not made at all without a socket
EmitEvent(ch, event) ==
  IF ch.socketRef # 0 /\ ch.sockets[ch.socketRef].status # "connected"
    THEN [ch EXCEPT !.sockets[ch.socketRef].sendBuffer = @ + 1]
    ELSE ch

\* a view calls onSyncCommand(callback) and keeps the detach function
OnSyncCommand(cb) ==
  /\ view[cb] = "none"
  /\ channel' = OnSync(channel, cb)
  /\ view' = [view EXCEPT ![cb] = IF channel.socketRef # 0 THEN "attached" ELSE "dropped"]
  /\ last' = [op |-> "onSyncCommand", cb |-> cb]
  /\ UNCHANGED << state, stored, initP, loginP, logoutP, refreshP, mounted, calls, callbackP >>

\* a view calls the detach function it got from onSyncCommand
DetachSyncCommand(cb) ==
  /\ view[cb] \in {"attached", "dropped", "orphaned"}
  /\ channel' = OffSync(channel, cb)
  /\ view' = [view EXCEPT ![cb] = IF view[cb] = "attached" THEN "detached" ELSE "released"]
  /\ last' = [op |-> "detach", cb |-> cb]
  /\ UNCHANGED << state, stored, initP, loginP, logoutP, refreshP, mounted, calls, callbackP >>

\* startListening, updateListening, stopListening, joinPartnerSession
Emit(event) ==
  /\ IF channel.socketRef = 0 THEN TRUE
     ELSE IF channel.sockets[channel.socketRef].status = "connected" THEN TRUE
     ELSE channel.sockets[channel.socketRef].sendBuffer < MaxBuffered
  /\ channel' = EmitEvent(channel, event)
  /\ last' = [op |-> "emit", event |-> event,
               socket |-> IF channel.socketRef = 0 THEN "none"
                          ELSE channel.sockets[channel.socketRef].status]
  /\ AuthUnchanged

\* registrations whose socket is no longer the one socketRef holds
Orphaned(v) == [cb \in SyncCallbacks |-> IF v[cb] = "attached" THEN "orphaned" ELSE v[cb]]

\* the sessions useAuth() can hand to the SocketProvider: none, or one of the
\* identities
Sessions ==
  {UnauthenticatedState} \cup {AuthenticatedState(StoredUser(id, Null), id, Null) : id \in Identities}

\* useAuth() delivers another session: the auth effect runs, and a socket it
\* closes takes its listeners with it
SessionChange ==
  /\ \E new \in Sessions :
       /\ new.isAuthenticated # state.isAuthenticated \/ new.spotifyId # state.spotifyId
       /\ Commit(new)
       /\ last' = [op |-> "session", spotifyId |-> new.spotifyId]
  /\ view' = Orphaned(view)
  /\ UNCHANGED << stored, initP, loginP, logoutP, refreshP, mounted, calls, callbackP >>

\* variant of PartnerListening that lets every press through
PartnerListeningUnchecked(ch) == TRUE

\* partnerStatus?.isListening, as the join handlers of the screens test it
PartnerListening(ch) ==
  ch.partnerStatus # None /\ ch.partnerStatus[1].isListening

\* handleJoinPartner / handleSyncWithPartner: if (!partnerStatus?.isListening)
\* { Alert.alert(...); return; } joinPartnerSession();
HandleJoinPartner ==
  IF PartnerListening(channel)
    THEN Emit("session:join")
    ELSE /\ last' = Log("join:alert")
         /\ UNCHANGED channel
         /\ AuthUnchanged

\* the screens call joinPartnerSession through their join handlers only
viewLayer ==
  \/ \E cb \in SyncCallbacks : OnSyncCommand(cb)
  \/ \E cb \in SyncCallbacks : DetachSyncCommand(cb)
  \/ \E event \in OutboundEvents \ {"session:join"} : Emit(event)
  \/ HandleJoinPartner

\* the screens' calls into the manager, interleaved with the session changes
\* that create and release sockets and with the events of the transport
NextView ==
  \/ SessionChange
  \/ transport
  \/ viewLayer

\* the storage plays no part here and starts empty
InitView == Init /\ stored = EmptyStorage

SpecView == InitView /\ [][NextView]_vars

\* the app opened on the auth callback route: initializeAuth of the provider
\* and handleCallback of the screen run side by side
NextCallback ==
  \/ initializeAuth
  \/ handleCallback
  \/ refreshUser

SpecCallback == Init /\ [][NextCallback]_vars

TypeOK ==
  /\ state \in [isLoading : BOOLEAN, isAuthenticated : BOOLEAN,
                user : {None} \cup {Some(u) : u \in StoredUsers},
                spotifyId : Identities \cup {Null}, partnerId : PartnerIds]
  /\ stored \in [spotifyId : Identities \cup {Null},
                 user : {None} \cup {Some(u) : u \in StoredUsers}]
  /\ channel.socketRef \in 0 .. MaxSockets
  /\ channel.partnerStatus \in {None} \cup {Some(d) : d \in PartnerStatus}
  /\ calls \in 0 .. MaxCalls

(* ------------------------------- properties ------------------------------ *)

\* isConnected, isPartnerOnline and partnerStatus at their empty defaults
PresenceReset(ch) ==
  /\ ch.isConnected = FALSE
  /\ ch.isPartnerOnline = FALSE
  /\ ch.partnerStatus = None

\* the in-memory session holds no identity
SessionCleared ==
  /\ state.isAuthenticated = FALSE
  /\ state.spotifyId = Null
  /\ state.user = None
  /\ state.partnerId = Null

\* C1: when initializeAuth found both records, it ends authenticated exactly
\* when api.getMe succeeded; when api.getMe did not succeed it ends
\* unauthenticated with both persisted records removed.
C1_InitializeAuthIffFetch ==
  mounted =>
    /\ last.op \in {"initializeAuth:settled:fetched", "initializeAuth:settled:fetched:cleared"}
         => state.isAuthenticated
    /\ last.op = "initializeAuth:settled:rejected"
         => (~state.isAuthenticated /\ stored = EmptyStorage)

\* C2: once a logout() that started with an identity (an authenticated
\* session) settles, the session is unauthenticated and both persisted
\* records are absent, whether api.logout succeeded or threw.
C2_LogoutAlwaysClears ==
  (mounted /\ last.op \in {"logout:settled:apiOk", "logout:settled:apiThrew",
                            "logout:rejected:apiOk", "logout:rejected:apiThrew"})
    => (SessionCleared /\ stored = EmptyStorage)

\* C3: in every reachable state isAuthenticated is true exactly when
\* spotifyId and user are both non-null.
C3_AuthenticatedIffIdentityAndUser ==
  state.isAuthenticated = (state.spotifyId # Null /\ state.user # None)

\* a late refreshUser response has been applied to a logged-out session
C3_Witness ==
  /\ last.op = "refreshUser:settled:late"
  /\ state.user # None
  /\ ~state.isAuthenticated

\* C4: a refreshUser response that arrives after the identity it was issued
\* for is no longer the session's identity (logout, identity change) is
\* discarded: it changes neither persisted storage nor user / partnerId.
C4_LateRefreshDiscarded ==
  [][(/\ refreshP.pc = "setStoredUser"
      /\ refreshP'.pc = "idle"
      /\ state.spotifyId # refreshP.spotifyId)
       => (/\ stored' = stored
           /\ state'.user = state.user
           /\ state'.partnerId = state.partnerId)]_vars

\* C5: a second connect with no disconnect in between leaves exactly one
\* open connection, whether or not the first one has reported 'connect'.
C5_ConnectTwiceOneConnection ==
  last.op \in {"connectSocket:again:connected", "connectSocket:again:notConnected"}
    => Cardinality(LiveSockets(channel)) = 1

\* C6: across authentication changes at most one socket created by the
\* manager is live, and it is the one socketRef holds: the previous socket is
\* disconnected before a new one is created.
C6_AtMostOneLiveSocket ==
  /\ Cardinality(LiveSockets(channel)) <= 1
  /\ LiveSockets(channel) \subseteq {channel.socketRef}

\* the identity changed while a socket existed, and one socket is live
C6_Witness ==
  /\ last.op = "login:authenticated:identityChanged"
  /\ Cardinality(LiveSockets(channel)) = 1

\* C7: from every state, disconnect() leaves isConnected=false,
\* isPartnerOnline=false, partnerStatus=null and no socket referenced, also
\* when no connection exists, and a second disconnect() changes nothing.
C7_DisconnectResets ==
  /\ PresenceReset(DisconnectSocket(channel))
  /\ DisconnectSocket(channel).socketRef = 0
  /\ DisconnectSocket(DisconnectSocket(channel)) = DisconnectSocket(channel)
  /\ last.op \in {"unmount", "unmount:wasConnected"}
       => (PresenceReset(channel) /\ channel.socketRef = 0)

\* disconnect() has run on a connected channel that showed a partner status
C7_Witness ==
  /\ last.op = "unmount:wasConnected"
  /\ PresenceReset(channel)
  /\ LiveSockets(channel) = {}

\* C8: while the session is unauthenticated no socket exists and the presence
\* state is reset; while it is authenticated the socket held is the one
\* opened for the session's current spotifyId; an identity change leaves a
\* newly opened socket and reset presence.
C8_ChannelFollowsSession ==
  mounted =>
    /\ ~state.isAuthenticated
         => (channel.socketRef = 0 /\ LiveSockets(channel) = {} /\ PresenceReset(channel))
    /\ state.isAuthenticated
         => /\ channel.socketRef # 0
            /\ channel.sockets[channel.socketRef].status # "closed"
            /\ channel.sockets[channel.socketRef].query = state.spotifyId
    /\ last.op \in {"login:authenticated:identityChanged", "logout:settled:apiOk",
                     "logout:settled:apiThrew"}
         => PresenceReset(channel)
    /\ last.op = "login:authenticated:identityChanged"
         => channel.sockets[channel.socketRef].status = "connecting"

\* the identity changed and the socket held carries the new identity
C8_Witness ==
  /\ mounted
  /\ last.op = "login:authenticated:identityChanged"
  /\ channel.sockets[channel.socketRef].query = state.spotifyId

\* C9: a transport 'disconnect' event leaves isConnected=false,
\* isPartnerOnline=false and partnerStatus=null.
C9_TransportDisconnectResets ==
  last.op \in {"disconnect", "disconnect:hadPresence"} => PresenceReset(channel)

\* the connection dropped while the partner was online with a status
C9_Witness ==
  /\ last.op = "disconnect:hadPresence"
  /\ PresenceReset(channel)

\* C10: a partner:offline event leaves partnerStatus=null and
\* isPartnerOnline=false, also right after a partner:status with
\* isListening=true.
C10_PartnerOfflineClears ==
  last.op \in {"partner:offline", "partner:offline:afterListening"}
    => (channel.partnerStatus = None /\ channel.isPartnerOnline = FALSE)

\* partner:offline arrived right after partner:status{isListening:true}
C10_Witness ==
  /\ last.op = "partner:offline:afterListening"
  /\ channel.partnerStatus = None
  /\ channel.isPartnerOnline = FALSE

\* C11: a partner:status event whose payload has isListening=true leaves
\* partnerStatus equal to that payload and isPartnerOnline=true, also when the
\* partner was not online before it.
C11_ListeningStatusForcesOnline ==
  last.op = "partner:status:listening"
    => (/\ channel.partnerStatus = Some(last.data)
        /\ channel.partnerStatus[1].trackName = last.data.trackName
        /\ channel.isPartnerOnline = TRUE)

\* partner:status{isListening:true, trackName:"X"} arrived with no partner
\* online and no status before it
C11_Witness ==
  /\ last.op = "partner:status:listening"
  /\ last.wasOnline = FALSE
  /\ last.before = None
  /\ last.data.trackName = "X"
  /\ channel.isPartnerOnline = TRUE
  /\ channel.partnerStatus[1].trackName = "X"

\* C12: after a partner:status event with payload p, partnerStatus is exactly
\* p: a field that p lacks is absent afterwards, whatever the previous
\* partnerStatus held.
C12_StatusReplacedNotMerged ==
  last.op \in {"partner:status", "partner:status:listening"}
    => channel.partnerStatus = Some(last.data)

\* a payload without trackName replaced a status that had trackName "X"
C12_Witness ==
  /\ last.op \in {"partner:status", "partner:status:listening"}
  /\ last.before # None
  /\ last.before[1].trackName = "X"
  /\ last.data.trackName = Undefined
  /\ channel.partnerStatus[1].trackName = Undefined

\* C13: with two onSyncCommand registrations on the same connection, the
\* detach function of the first removes only the first handler: every later
\* session:sync event of that connection invokes the callback that is still
\* attached and never the detached one.
C13_DetachRemovesOnlyItsHandler ==
  /\ \A cb \in SyncCallbacks :
       view[cb] = "detached" => \A i \in SocketIds : cb \notin channel.sockets[i].sync
  /\ last.op = "session:sync"
       => \A cb \in SyncCallbacks :
            /\ view[cb] = "attached" => cb \in last.invoked
            /\ view[cb] = "detached" => cb \notin last.invoked

\* both callbacks were registered on the connection, "a" was detached, and a
\* session:sync event then invoked "b" alone
C13_Witness ==
  /\ last.op = "session:sync"
  /\ last.socket = channel.socketRef
  /\ view["a"] = "detached"
  /\ view["b"] = "attached"
  /\ last.invoked = {"b"}

\* C14: startListening, updateListening, stopListening and joinPartnerSession
\* send nothing and change nothing whenever no connection is open: after such
\* a call made without a connected socket no socket holds a packet to send,
\* and a later 'connect' writes none to the transport.
C14_EmitWithoutOpenConnectionDropped ==
  /\ (last.op = "emit" /\ last.socket # "connected")
       => \A i \in SocketIds : channel.sockets[i].sendBuffer = 0
  /\ last.op = "connect" => last.flushed = 0

\* the labels of a login() that settled after its profile fetch had succeeded
LoginFetchedLabels ==
  {"login:authenticated", "login:authenticated:identityChanged",
   "login:setStoredSpotifyId:rejected", "login:setStoredUser:rejected"}

\* the labels of a login() that settled on a failure
LoginFailedLabels ==
  {"login:dismissed", "login:sessionThrew", "login:noIdentity",
   "login:getMe:rejected", "login:setStoredSpotifyId:rejected",
   "login:setStoredUser:rejected"}

C16_FailedLoginLeavesNothing ==
  (mounted /\ last.op \in LoginFailedLabels /\ last.clean)
    => (/\ state.isAuthenticated = FALSE
        /\ state.spotifyId = Null
        /\ state.user = None
        /\ stored = EmptyStorage)

\* C17: when the profile fetch rejects or the callback carries no identity,
\* login() gives its caller an error outcome: its promise is rejected.
C17_LoginFailureSurfaced ==
  last.op \in {"login:getMe:rejected", "login:noIdentity"}
    => last.promise = "rejected"

\* the labels of the steps on which initializeAuth, login and logout settle
SettledLabels ==
  {"initializeAuth:settled:notStored", "initializeAuth:settled:fetched",
   "initializeAuth:settled:fetched:cleared", "initializeAuth:settled:rejected",
   "logout:settled:apiOk", "logout:settled:apiThrew", "logout:settled:apiSkipped",
   "logout:rejected:apiOk", "logout:rejected:apiThrew", "logout:rejected:apiSkipped"}
    \cup LoginFetchedLabels \cup LoginFailedLabels

\* C18: initializeAuth, login and logout each end with isLoading=false once
\* all their awaited calls have returned or failed, on every path, failures
\* of the fetch, of the server logout and of the storage calls included.
C18_SettlesNotLoading ==
  (mounted /\ last.op \in SettledLabels) => state.isLoading = FALSE

\* C19: when refreshUser's profile fetch or storage write fails,
\* isAuthenticated, spotifyId, user and partnerId (and the persisted records)
\* are left exactly as they were: the session is not logged out.
C19_RefreshFailureKeepsSession ==
  [][last'.op \in {"refreshUser:getMe:rejected", "refreshUser:setStoredUser:rejected"}
       => (state' = state /\ stored' = stored)]_vars

\* a refresh of an authenticated session failed on its storage write and the
\* session is still authenticated
C19_Witness ==
  /\ mounted
  /\ last.op = "refreshUser:setStoredUser:rejected"
  /\ state.isAuthenticated
  /\ state.spotifyId # Null
  /\ state.user # None

\* C20: when refreshUser's profile fetch succeeds for the current identity,
\* the persisted user record and the in-memory user and partnerId take the
\* fetched values, while isAuthenticated, spotifyId, isLoading and the
\* persisted identity are unchanged.
C20_RefreshUpdatesUserOnly ==
  [][(mounted /\ last'.op = "refreshUser:settled" /\ refreshP.pc = "setStoredUser")
       => (/\ stored'.user = Some(StoredUser(refreshP.spotifyId, last'.partnerId))
           /\ state'.user = Some(StoredUser(refreshP.spotifyId, last'.partnerId))
           /\ state'.partnerId = last'.partnerId
           /\ state'.isAuthenticated = state.isAuthenticated
           /\ state'.spotifyId = state.spotifyId
           /\ state'.isLoading = state.isLoading
           /\ stored'.spotifyId = stored.spotifyId)]_vars

\* a refresh of the current identity brought a partnerId the session did not
\* have, and both the state and the persisted record now hold it
C20_Witness ==
  /\ mounted
  /\ last.op = "refreshUser:settled"
  /\ last.was = Null
  /\ last.partnerId = "p1"
  /\ state.partnerId = "p1"
  /\ state.isAuthenticated
  /\ state.user = Some(StoredUser(state.spotifyId, "p1"))
  /\ stored.user = state.user

\* C21: when the session holds no identity (spotifyId=null), a call of
\* refreshUser issues no profile fetch and changes neither the in-memory
\* state nor the persisted storage.
C21_RefreshWithoutIdentityNoOp ==
  [][(/\ last'.op \in {"refreshUser:noIdentity", "refreshUser:call"}
      /\ calls' = calls + 1
      /\ state.spotifyId = Null)
       => (/\ refreshP'.pc = "idle"
           /\ state' = state
           /\ stored' = stored)]_vars

\* refreshUser was called on a session without identity while a record was
\* still persisted, and nothing is in flight
C21_Witness ==
  /\ mounted
  /\ last.op = "refreshUser:noIdentity"
  /\ state.spotifyId = Null
  /\ refreshP.pc = "idle"
  /\ stored # EmptyStorage

\* C22: when initializeAuth found a persisted identity and user and the
\* profile fetch succeeded with partnerId P, the resulting state has
\* isAuthenticated=true and partnerId=P and the persisted user record holds
\* partnerId P, whatever the stored user held before.
C22_InitializeAuthTakesFetchedPartner ==
  (mounted /\ last.op \in {"initializeAuth:settled:fetched",
                            "initializeAuth:settled:fetched:cleared"})
    => (/\ state.isAuthenticated = TRUE
        /\ stored.user # None
        /\ last.op = "initializeAuth:settled:fetched"
             => (/\ state.partnerId = last.partnerId
                 /\ stored.user[1].partnerId = last.partnerId))

\* the phase of the session as the screens read it
PhaseOf(st) ==
  IF st.isLoading THEN "loading"
  ELSE IF st.isAuthenticated THEN "authenticated" ELSE "unauthenticated"

\* C23: the session phase only moves from loading to authenticated or
\* unauthenticated, from authenticated to unauthenticated on logout or on a
\* failed profile fetch, and from unauthenticated through loading to
\* authenticated on a successful login: the session becomes authenticated
\* only on a successful login or initialize, never passes from
\* authenticated with one identity directly to authenticated with another,
\* and leaves authenticated for unauthenticated only on logout or on a
\* failed profile fetch.
C23_PhaseTransitions ==
  [][/\ (~state.isAuthenticated /\ state'.isAuthenticated)
          => last'.op \in {"initializeAuth:settled:fetched", "login:authenticated",
                           "login:authenticated:identityChanged"}
     /\ (PhaseOf(state) = "authenticated" /\ PhaseOf(state') = "authenticated")
          => state'.spotifyId = state.spotifyId
     /\ (PhaseOf(state) = "authenticated" /\ PhaseOf(state') = "unauthenticated")
          => last'.op \in {"logout:settled:apiOk", "logout:settled:apiThrew",
                           "logout:settled:apiSkipped",
                           "initializeAuth:settled:rejected"}]_vars

\* the socket socketRef holds has used up its reconnection attempts
Exhausted(ch) ==
  /\ ch.socketRef # 0
  /\ ch.sockets[ch.socketRef].status = "failed"
  /\ ch.sockets[ch.socketRef].attempts = reconnectionAttempts

\* C24: once the transport has used up its 5 reconnection attempts,
\* isConnected stays false and no socket attempts a connection until an
\* authentication or identity change runs the auth effect again.
C24_ExhaustedStaysDown ==
  [][(/\ Exhausted(channel)
      /\ state'.isAuthenticated = state.isAuthenticated
      /\ state'.spotifyId = state.spotifyId)
       => (/\ channel.isConnected = FALSE
           /\ channel'.isConnected = FALSE
           /\ \A i \in SocketIds :
                channel'.sockets[i].status \notin {"connecting", "connected"})]_vars

\* the socket of an authenticated session gave up after its last attempt
C24_Witness ==
  /\ mounted
  /\ state.isAuthenticated
  /\ Exhausted(channel)
  /\ channel.isConnected = FALSE
  /\ last.op = "connect_error"

\* C25: when the auth callback screen processed a callback carrying a
\* spotifyId whose profile fetch succeeded (and persisted identity and
\* user), the in-memory session is authenticated with that identity by the
\* time the screen navigates to the home tabs.
C25_CallbackAuthenticatesBeforeNavigate ==
  (mounted /\ last.op = "callback:navigate")
    => (/\ state.isAuthenticated = TRUE
        /\ state.spotifyId = last.spotifyId)

\* no session operation is in flight and no response is outstanding
Settled ==
  /\ initP.pc = "done"
  /\ loginP.pc = "idle"
  /\ logoutP.pc = "idle"
  /\ refreshP.pc = "idle"
  /\ callbackP.pc \in {"start", "done", "error"}

\* C26: once every session operation and every late response has settled,
\* the persisted identity record is present exactly when the persisted user
\* record is, also when initializeAuth started from storage holding only one
\* of them and when a refresh response arrived after logout.
C26_RecordsPairedWhenSettled ==
  Settled => (stored.spotifyId = Null <=> stored.user = None)

\* C27: in every reachable state, if isConnected is false (no socket, socket
\* not yet connected, or connection dropped) then isPartnerOnline is false
\* and partnerStatus is null.
C27_NoPresenceWhileDown ==
  channel.isConnected = FALSE
    => (channel.isPartnerOnline = FALSE /\ channel.partnerStatus = None)

\* the connection dropped while presence was shown and the socket is
\* reconnecting: nothing of the presence is left
C27_Witness ==
  /\ last.op = "disconnect:hadPresence"
  /\ channel.socketRef # 0
  /\ channel.sockets[channel.socketRef].status = "connecting"
  /\ channel.isConnected = FALSE
  /\ channel.isPartnerOnline = FALSE
  /\ channel.partnerStatus = None

\* C28: in every reachable state, if partnerStatus is non-null with
\* isListening=true then isPartnerOnline is true, whatever the interleaving
\* of partner:online, partner:offline, partner:status, connect and
\* disconnect events.
C28_ListeningImpliesOnline ==
  (channel.partnerStatus # None /\ channel.partnerStatus[1].isListening)
    => channel.isPartnerOnline = TRUE

\* a partner:online event met a partner already known to be listening
C28_Witness ==
  /\ last.op = "partner:online"
  /\ channel.partnerStatus # None
  /\ channel.partnerStatus[1].isListening
  /\ channel.isPartnerOnline = TRUE

\* C29: a callback registered through onSyncCommand and not yet detached is
\* invoked for every session:sync event delivered on the current connection,
\* also when it was registered while no socket existed and when the socket
\* has been re-created since the registration.
C29_RegisteredCallbackAlwaysInvoked ==
  (last.op = "session:sync" /\ last.socket = channel.socketRef)
    => \A cb \in SyncCallbacks :
         view[cb] \in {"attached", "dropped", "orphaned"} => cb \in last.invoked

\* C30: the view layer emits session:join only when partnerStatus is
\* non-null with isListening=true; a press of the join action while the
\* partner is not listening emits nothing and changes nothing.
C30_JoinOnlyWhenPartnerListening ==
  [][/\ (last'.op = "emit" /\ last'.event = "session:join")
          => (channel.partnerStatus # None /\ channel.partnerStatus[1].isListening)
     /\ last'.op = "join:alert"
          => (/\ ~(channel.partnerStatus # None /\ channel.partnerStatus[1].isListening)
              /\ channel' = channel)]_vars

\* the join action was pressed while the partner was listening and
\* session:join went out on the open connection
C30_Witness ==
  /\ last.op = "emit"
  /\ last.event = "session:join"
  /\ last.socket = "connected"
  /\ channel.partnerStatus # None
  /\ channel.partnerStatus[1].isListening

====
